---------------------------- MODULE Spec2Model ----------------------------
(***************************************************************************)
(* Model of forge/src/executor/builder.rs: the ExecutorBuilder, the        *)
(* Backend union it constructs, and the DatabaseRef dispatch of Backend.   *)
(*                                                                         *)
(* Two specifications share the variables:                                 *)
(*   Spec         the builder's life: new(), any chain of with_* calls,    *)
(*                then build(), which returns an Executor or panics.       *)
(*   SpecBackend  the life of one built Executor's database: the four      *)
(*                DatabaseRef queries, issued in any order while the       *)
(*                remote chain's head moves.                               *)
(***************************************************************************)
EXTENDS Naturals, Sequences, FiniteSets, TLC

VARIABLES
    pc,        \* "accumulating" | "built" | "panicked"
    builder,   \* the ExecutorBuilder value (cheatcodes, ffi, config, fork)
    ops,       \* history: the with_* calls applied to the builder, in order
    executor,  \* Option<Executor<Backend>>: what build() returned
    cache,     \* the SharedMemCache owned by the SharedBackend
    head,      \* the remote chain's current head block
    requests,  \* history: the requests that reached the remote node
    last,      \* history: the last DatabaseRef query and how it was served
    answers,   \* history: every (query, returned value) pair so far
    nq         \* number of queries issued

vars == <<pc, builder, ops, executor, cache, head, requests, last, answers, nq>>

builderVars == <<pc, builder, ops, executor>>
backendVars == <<cache, head, requests, last, answers, nq>>

----------------------------------------------------------------------------
(* Bounds *)

MaxOps == 4
MaxQueries == 3
MaxBlock == 2
MaxHead == 1
PinBlock == 1

----------------------------------------------------------------------------
(* Option<T> *)

None == [some |-> FALSE]
Some(x) == [some |-> TRUE, val |-> x]

(* Option::map(Into::into) on Option<u64>: u64 -> BlockId::Number *)
Option_map_into(o) == IF o.some THEN Some([Number |-> o.val]) ELSE None

----------------------------------------------------------------------------
(* Value domains *)

SpecIds == {"LATEST", "BERLIN"}
GasLimits == {"U256_MAX", "30M"}

(* revm::Env, reduced to the part with_spec writes and one other part *)
Envs == [cfg : [spec_id : SpecIds], block : [gas_limit : GasLimits]]
Env_default == [cfg |-> [spec_id |-> "LATEST"], block |-> [gas_limit |-> "U256_MAX"]]

GoodUrl == "https://node.example"
BadUrl == "not-a-url"
Urls == {GoodUrl, BadUrl}

Forks == [url : Urls, pin_block : {None, Some(PinBlock)}]

Addresses == {"0xA1", "0xA2"}
CodeHashes == {"0xC1", "0xC2"}
Indices == 0..1
BlockNumbers == 0..MaxBlock

----------------------------------------------------------------------------
(* ExecutorBuilder *)

ExecutorBuilder_new ==
    [cheatcodes |-> FALSE, ffi |-> FALSE, config |-> Env_default, fork |-> None]

(* Mutant: rebuilds the builder from defaults instead of updating self. *)
with_cheatcodes_fresh(self, ffi) ==
    [ExecutorBuilder_new EXCEPT !.cheatcodes = TRUE, !.ffi = ffi]

with_cheatcodes(self, ffi) ==
    [self EXCEPT !.cheatcodes = TRUE, !.ffi = ffi]

(* Mutant: starts from a default Env before setting the spec id. *)
with_spec_default_env(self, spec) ==
    [self EXCEPT !.config = [Env_default EXCEPT !.cfg.spec_id = spec]]

with_spec(self, spec) ==
    [self EXCEPT !.config.cfg.spec_id = spec]

(* Mutant: Self { config, ..Self::default() } *)
with_config_rest_default(self, config) ==
    [ExecutorBuilder_new EXCEPT !.config = config]

with_config(self, config) ==
    [self EXCEPT !.config = config]

with_fork(self, fork) ==
    [self EXCEPT !.fork = Some(fork)]

(* Provider::try_from(url): Ok(provider) for a parseable URL, Err otherwise *)
Provider_try_from(url) ==
    IF url = GoodUrl THEN [ok |-> TRUE, provider |-> [endpoint |-> url]]
    ELSE [ok |-> FALSE, err |-> "ParseError"]

EmptyDB == [db |-> "EmptyDB"]

(* SharedBackend::new(provider, SharedMemCache::default(), pin) *)
SharedBackend_new(provider, pin) ==
    [provider |-> provider, pin_block |-> pin]

(* Mutant: ignores the fork descriptor. *)
Backend_new_always_simple(fork) ==
    [panic |-> FALSE, db |-> [variant |-> "Simple", inner |-> EmptyDB]]

(* Mutant: falls back to the empty database when the URL does not parse. *)
Backend_new_fallback(fork) ==
    IF fork.some /\ Provider_try_from(fork.val.url).ok
    THEN [panic |-> FALSE,
          db |-> [variant |-> "Forked",
                  inner |-> SharedBackend_new(Provider_try_from(fork.val.url).provider,
                                Option_map_into(fork.val.pin_block))]]
    ELSE [panic |-> FALSE, db |-> [variant |-> "Simple", inner |-> EmptyDB]]

(* Backend::new: Ok(backend), or a panic out of unwrap() *)
Backend_new(fork) ==
    IF fork.some
    THEN LET p == Provider_try_from(fork.val.url) IN
         IF p.ok
         THEN [panic |-> FALSE,
               db |-> [variant |-> "Forked",
                       inner |-> SharedBackend_new(p.provider,
                                     Option_map_into(fork.val.pin_block))]]
         ELSE [panic |-> TRUE]
    ELSE [panic |-> FALSE, db |-> [variant |-> "Simple", inner |-> EmptyDB]]

(* Executor::new(db, env) *)
Executor_new(db, env) == [db |-> db, env |-> env]

(* ExecutorBuilder::build: the Executor, or the panic of Backend::new *)
build(self) ==
    LET b == Backend_new(self.fork) IN
    IF b.panic THEN [panic |-> TRUE]
    ELSE [panic |-> FALSE, executor |-> Executor_new(b.db, self.config)]

----------------------------------------------------------------------------
(* Builder actions *)

EmptyCache == << >>

InitBackendIdle ==
    /\ cache = EmptyCache
    /\ head = 0
    /\ requests = {}
    /\ last = None
    /\ answers = {}
    /\ nq = 0

Init ==
    /\ pc = "accumulating"
    /\ builder = ExecutorBuilder_new
    /\ ops = << >>
    /\ executor = None
    /\ InitBackendIdle

WithCheatcodes ==
    /\ pc = "accumulating"
    /\ Len(ops) < MaxOps
    /\ \E ffi \in BOOLEAN :
         /\ builder' = with_cheatcodes(builder, ffi)
         /\ ops' = Append(ops, [op |-> "with_cheatcodes", ffi |-> ffi])
    /\ UNCHANGED <<pc, executor>>
    /\ UNCHANGED backendVars

WithSpec ==
    /\ pc = "accumulating"
    /\ Len(ops) < MaxOps
    /\ \E spec \in SpecIds :
         /\ builder' = with_spec(builder, spec)
         /\ ops' = Append(ops, [op |-> "with_spec", spec |-> spec])
    /\ UNCHANGED <<pc, executor>>
    /\ UNCHANGED backendVars

WithConfig ==
    /\ pc = "accumulating"
    /\ Len(ops) < MaxOps
    /\ \E config \in Envs :
         /\ builder' = with_config(builder, config)
         /\ ops' = Append(ops, [op |-> "with_config", config |-> config])
    /\ UNCHANGED <<pc, executor>>
    /\ UNCHANGED backendVars

WithFork ==
    /\ pc = "accumulating"
    /\ Len(ops) < MaxOps
    /\ \E fork \in Forks :
         /\ builder' = with_fork(builder, fork)
         /\ ops' = Append(ops, [op |-> "with_fork", fork |-> fork])
    /\ UNCHANGED <<pc, executor>>
    /\ UNCHANGED backendVars

Build ==
    /\ pc = "accumulating"
    /\ LET r == build(builder) IN
         /\ pc' = IF r.panic THEN "panicked" ELSE "built"
         /\ executor' = IF r.panic THEN None ELSE Some(r.executor)
    /\ cache' = EmptyCache
    /\ UNCHANGED <<builder, ops>>
    /\ UNCHANGED <<head, requests, last, answers, nq>>

Next ==
    \/ WithCheatcodes
    \/ WithSpec
    \/ WithConfig
    \/ WithFork
    \/ Build

Spec == Init /\ [][Next]_vars

----------------------------------------------------------------------------
(* The inner databases of the two variants *)

Key(fn, args) == [fn |-> fn, args |-> args]

(* revm's EmptyDB holds no data: each answer is a function of the method
   and its arguments, kept here as an uninterpreted term. *)
EmptyDB_block_hash(self, number) ==
    [from |-> self.db, key |-> Key("block_hash", [number |-> number])]

EmptyDB_basic(self, address) ==
    [from |-> self.db, key |-> Key("basic", [address |-> address])]

EmptyDB_code_by_hash(self, code_hash) ==
    [from |-> self.db, key |-> Key("code_by_hash", [code_hash |-> code_hash])]

EmptyDB_storage(self, address, index) ==
    [from |-> self.db, key |-> Key("storage", [address |-> address, index |-> index])]

(* What the remote node reports for a key as of a block. *)
RemoteValue(key, at) == [from |-> "remote", key |-> key, at |-> at]

(* What a SharedBackend answers without asking the node. *)
DefaultHash == [from |-> "default", key |-> "block_hash"]

(* Mutant: asks the node at its head on every call and never reads the cache. *)
SharedBackend_get_live(self, c, h, key) ==
    [value |-> RemoteValue(key, h),
     cache |-> (key :> RemoteValue(key, h)) @@ c,
     fetched |-> {[key |-> key, at |-> h]}]

(* The fetch-through cache: a cached key is served from the cache; any
   other is fetched from the node as of the pinned block (the head when
   there is no pin) and cached. *)
SharedBackend_get(self, c, h, key) ==
    IF key \in DOMAIN c
    THEN [value |-> c[key], cache |-> c, fetched |-> {}]
    ELSE LET at == IF self.pin_block.some THEN self.pin_block.val.Number ELSE h
             v == RemoteValue(key, at)
         IN [value |-> v, cache |-> (key :> v) @@ c,
             fetched |-> {[key |-> key, at |-> at]}]

(* Mutant: asks the node for any block number, above the pin or not. *)
SharedBackend_block_hash_any(self, c, h, number) ==
    SharedBackend_get(self, c, h, Key("block_hash", [number |-> number]))

(* A block number above the pin is answered without asking the node. *)
SharedBackend_block_hash(self, c, h, number) ==
    IF self.pin_block.some /\ number > self.pin_block.val.Number
    THEN [value |-> DefaultHash, cache |-> c, fetched |-> {}]
    ELSE SharedBackend_get(self, c, h, Key("block_hash", [number |-> number]))

SharedBackend_basic(self, c, h, address) ==
    SharedBackend_get(self, c, h, Key("basic", [address |-> address]))

SharedBackend_code_by_hash(self, c, h, code_hash) ==
    SharedBackend_get(self, c, h, Key("code_by_hash", [code_hash |-> code_hash]))

SharedBackend_storage(self, c, h, address, index) ==
    SharedBackend_get(self, c, h, Key("storage", [address |-> address, index |-> index]))

----------------------------------------------------------------------------
(* impl DatabaseRef for Backend: each method matches on the variant and
   calls the same method of the inner database.  A served call records the
   inner database called (callee, key), the value returned to the caller,
   and what the call did to the cache and the remote node. *)

ViaSimple(key, value, c) ==
    [ret |-> value, callee |-> "EmptyDB", key |-> key, cache |-> c, fetched |-> {}]

ViaForked(key, r) ==
    [ret |-> r.value, callee |-> "SharedBackend", key |-> key,
     cache |-> r.cache, fetched |-> r.fetched]

Backend_block_hash(self, c, h, number) ==
    IF self.variant = "Simple"
    THEN ViaSimple(Key("block_hash", [number |-> number]),
                   EmptyDB_block_hash(self.inner, number), c)
    ELSE ViaForked(Key("block_hash", [number |-> number]),
                   SharedBackend_block_hash(self.inner, c, h, number))

Backend_basic(self, c, h, address) ==
    IF self.variant = "Simple"
    THEN ViaSimple(Key("basic", [address |-> address]),
                   EmptyDB_basic(self.inner, address), c)
    ELSE ViaForked(Key("basic", [address |-> address]),
                   SharedBackend_basic(self.inner, c, h, address))

Backend_code_by_hash(self, c, h, code_hash) ==
    IF self.variant = "Simple"
    THEN ViaSimple(Key("code_by_hash", [code_hash |-> code_hash]),
                   EmptyDB_code_by_hash(self.inner, code_hash), c)
    ELSE ViaForked(Key("code_by_hash", [code_hash |-> code_hash]),
                   SharedBackend_code_by_hash(self.inner, c, h, code_hash))

(* Mutant: forwards slot 0 whatever the index asked for. *)
Backend_storage_slot0(self, c, h, address, index) ==
    IF self.variant = "Simple"
    THEN ViaSimple(Key("storage", [address |-> address, index |-> 0]),
                   EmptyDB_storage(self.inner, address, 0), c)
    ELSE ViaForked(Key("storage", [address |-> address, index |-> 0]),
                   SharedBackend_storage(self.inner, c, h, address, 0))

Backend_storage(self, c, h, address, index) ==
    IF self.variant = "Simple"
    THEN ViaSimple(Key("storage", [address |-> address, index |-> index]),
                   EmptyDB_storage(self.inner, address, index), c)
    ELSE ViaForked(Key("storage", [address |-> address, index |-> index]),
                   SharedBackend_storage(self.inner, c, h, address, index))

----------------------------------------------------------------------------
(* Backend actions: the engine queries the database build() gave it *)

Db == executor.val.db

(* The state right after ExecutorBuilder::new()[.with_fork(f)].build() *)
InitBackend ==
    /\ \E b \in {ExecutorBuilder_new} \cup
                {with_fork(ExecutorBuilder_new, f) : f \in Forks} :
         /\ ~build(b).panic
         /\ builder = b
         /\ ops = IF b.fork.some
                  THEN <<[op |-> "with_fork", fork |-> b.fork.val]>> ELSE << >>
         /\ executor = Some(build(b).executor)
    /\ pc = "built"
    /\ InitBackendIdle

Serve(q, r) ==
    /\ cache' = r.cache
    /\ requests' = requests \cup r.fetched
    /\ last' = Some([query |-> q, callee |-> r.callee, key |-> r.key, ret |-> r.ret])
    /\ answers' = answers \cup {[query |-> q, value |-> r.ret]}
    /\ nq' = nq + 1
    /\ UNCHANGED <<builderVars, head>>

BlockHash ==
    /\ pc = "built"
    /\ nq < MaxQueries
    /\ \E number \in BlockNumbers :
         Serve(Key("block_hash", [number |-> number]),
               Backend_block_hash(Db, cache, head, number))

Basic ==
    /\ pc = "built"
    /\ nq < MaxQueries
    /\ \E address \in Addresses :
         Serve(Key("basic", [address |-> address]),
               Backend_basic(Db, cache, head, address))

CodeByHash ==
    /\ pc = "built"
    /\ nq < MaxQueries
    /\ \E code_hash \in CodeHashes :
         Serve(Key("code_by_hash", [code_hash |-> code_hash]),
               Backend_code_by_hash(Db, cache, head, code_hash))

Storage ==
    /\ pc = "built"
    /\ nq < MaxQueries
    /\ \E address \in Addresses, index \in Indices :
         Serve(Key("storage", [address |-> address, index |-> index]),
               Backend_storage(Db, cache, head, address, index))

(* The remote chain grows by a block. *)
RemoteAdvance ==
    /\ pc = "built"
    /\ head < MaxHead
    /\ head' = head + 1
    /\ UNCHANGED <<builderVars, cache, requests, last, answers, nq>>

NextBackend ==
    \/ BlockHash
    \/ Basic
    \/ CodeByHash
    \/ Storage
    \/ RemoteAdvance

SpecBackend == InitBackend /\ [][NextBackend]_vars

----------------------------------------------------------------------------
(* Helpers of the builder claims *)

ForkAttached(s) == \E i \in 1..Len(s) : s[i].op = "with_fork"

BadForkAttached ==
    builder.fork.some /\ ~Provider_try_from(builder.fork.val.url).ok

ApplyOp(b, o) ==
    CASE o.op = "with_cheatcodes" -> with_cheatcodes(b, o.ffi)
      [] o.op = "with_spec" -> with_spec(b, o.spec)
      [] o.op = "with_config" -> with_config(b, o.config)
      [] o.op = "with_fork" -> with_fork(b, o.fork)

RECURSIVE ApplyAll(_, _)
ApplyAll(b, s) ==
    IF s = << >> THEN b ELSE ApplyAll(ApplyOp(b, Head(s)), Tail(s))

Perms(n) == {p \in [1..n -> 1..n] : \A i, j \in 1..n : p[i] = p[j] => i = j}

Permuted(s, p) == [i \in 1..Len(s) |-> s[p[i]]]

NoRepeat(s) == \A i, j \in 1..Len(s) : s[i].op = s[j].op => i = j

Applied(s, name) == \E i \in 1..Len(s) : s[i].op = name

(* The five configuration fields of the data model, and those that differ
   between two builder values.  The environment is the Env record apart
   from its spec id, which is the field spec_version. *)
Changed(b, c) ==
    (IF b.cheatcodes # c.cheatcodes THEN {"cheatcodes_enabled"} ELSE {})
    \cup (IF b.ffi # c.ffi THEN {"ffi_enabled"} ELSE {})
    \cup (IF b.config.cfg.spec_id # c.config.cfg.spec_id THEN {"spec_version"} ELSE {})
    \cup (IF b.config.block # c.config.block THEN {"environment"} ELSE {})
    \cup (IF b.fork # c.fork THEN {"fork"} ELSE {})

WriteSet(name) ==
    CASE name = "with_cheatcodes" -> {"cheatcodes_enabled", "ffi_enabled"}
      [] name = "with_spec" -> {"spec_version"}
      [] name = "with_config" -> {"environment", "spec_version"}
      [] name = "with_fork" -> {"fork"}

Written(o, c) ==
    CASE o.op = "with_cheatcodes" -> c.cheatcodes /\ c.ffi = o.ffi
      [] o.op = "with_spec" -> c.config.cfg.spec_id = o.spec
      [] o.op = "with_config" -> c.config = o.config
      [] o.op = "with_fork" -> c.fork = Some(o.fork)

(* The builder values a chain of with_* calls can produce. *)
Builders ==
    {b \in [cheatcodes : BOOLEAN, ffi : BOOLEAN, config : Envs,
            fork : {None} \cup {Some(f) : f \in Forks}] : b.ffi => b.cheatcodes}

----------------------------------------------------------------------------
(* C1: a build that returns yields the Forked backend exactly when with_fork
   was called at least once, and the Simple (Local) backend otherwise; a
   build with no fork attached always returns. No other variant is reached. *)
C1_VariantSelection ==
    /\ pc = "built" =>
         /\ executor.some
         /\ executor.val.db.variant = (IF ForkAttached(ops) THEN "Forked" ELSE "Simple")
    /\ pc = "panicked" => ForkAttached(ops)

C1_Witness ==
    /\ pc = "built"
    /\ Len(ops) >= 2
    /\ ops[1].op = "with_fork"
    /\ ops[2].op = "with_config"
    /\ executor.val.db.variant = "Forked"

(* C2: with a fork descriptor whose endpoint does not parse attached, no
   engine is ever produced (build panics; it does not fall back to the
   Simple backend), and no with_* call, with_fork included, fails. *)
C2_BadEndpointFailsBuild ==
    /\ [](BadForkAttached => pc # "built" /\ executor = None)
    /\ [][BadForkAttached /\ pc' # pc => pc' = "panicked" /\ executor' = None]_vars
    /\ [][ops' # ops => pc' = "accumulating"]_vars

C2_Witness ==
    /\ pc = "panicked"
    /\ BadForkAttached
    /\ executor = None

(* C3 as stated: when no operation was applied twice, every order of the
   applied operations gives the builder the same final configuration. *)
C3_OrderIndependent ==
    NoRepeat(ops) =>
        \A p \in Perms(Len(ops)) :
            ApplyAll(ExecutorBuilder_new, Permuted(ops, p)) = builder

(* C3 amended: the same, for chains that do not hold both with_spec and
   with_config (with_config replaces the Env that with_spec writes into). *)
C3_OrderIndependentApart ==
    (NoRepeat(ops) /\ ~(Applied(ops, "with_spec") /\ Applied(ops, "with_config"))) =>
        \A p \in Perms(Len(ops)) :
            ApplyAll(ExecutorBuilder_new, Permuted(ops, p)) = builder

C3_Witness ==
    /\ Len(ops) = 3
    /\ NoRepeat(ops)
    /\ ops[1].op = "with_fork"
    /\ ops[2].op = "with_config"
    /\ ops[3].op = "with_cheatcodes"
    /\ builder.ffi
    /\ builder.config # Env_default

(* C4 as stated: a with_* call changes one of the five configuration fields
   and leaves the other four as they were (a call that sets the value
   already held changes none, and is not counted against the claim). *)
C4_ExactlyOneField ==
    [][ops' # ops => Cardinality(Changed(builder, builder')) <= 1]_vars

(* C4 amended: a with_* call changes no field outside its own write set:
   with_cheatcodes writes cheatcodes (true) and ffi (its argument),
   with_spec the spec id, with_config the whole Env (spec id included),
   with_fork the fork. *)
C4_WriteSets ==
    [][ops' # ops =>
        LET o == ops'[Len(ops')] IN
        /\ Changed(builder, builder') \subseteq WriteSet(o.op)
        /\ Written(o, builder')]_vars

C4_Witness ==
    /\ Len(ops) = 3
    /\ ops[3] = [op |-> "with_cheatcodes", ffi |-> TRUE]
    /\ builder.cheatcodes /\ builder.ffi
    /\ builder.fork.some
    /\ builder.config # Env_default

(* C5: the engine build returns carries every accumulated setting, so a
   builder that differs from the consumed one in any field builds a
   different engine. *)
C5_BuildCarriesAllSettings ==
    pc = "built" =>
        \A b \in Builders :
            (b # builder /\ ~build(b).panic) => Some(build(b).executor) # executor

(* C10: in every builder state ffi implies cheatcodes; and no operation
   turns cheatcodes off again or removes an attached fork. *)
C10_FfiNeedsCheatcodes ==
    /\ [](builder.ffi => builder.cheatcodes)
    /\ [][builder.cheatcodes => builder'.cheatcodes]_vars
    /\ [][builder.fork.some => builder'.fork.some]_vars

C10_Witness ==
    /\ Len(ops) = 4
    /\ ops[1].op = "with_cheatcodes"
    /\ ops[2].op = "with_fork"
    /\ ops[3].op = "with_config"
    /\ ops[4].op = "with_spec"
    /\ builder.cheatcodes /\ builder.ffi /\ builder.fork.some

----------------------------------------------------------------------------
(* Helpers of the backend claims *)

PinnedFork == builder.fork.some /\ builder.fork.val.pin_block.some

(* The inner method of the active variant, called directly with the
   query's own arguments. *)
InnerAnswer(self, c, h, q) ==
    IF self.variant = "Simple"
    THEN [callee |-> "EmptyDB", cache |-> c, fetched |-> {},
          value |-> CASE q.fn = "block_hash" -> EmptyDB_block_hash(self.inner, q.args.number)
                      [] q.fn = "basic" -> EmptyDB_basic(self.inner, q.args.address)
                      [] q.fn = "code_by_hash" -> EmptyDB_code_by_hash(self.inner, q.args.code_hash)
                      [] q.fn = "storage" -> EmptyDB_storage(self.inner, q.args.address, q.args.index)]
    ELSE [callee |-> "SharedBackend"] @@
         (CASE q.fn = "block_hash" -> SharedBackend_block_hash(self.inner, c, h, q.args.number)
            [] q.fn = "basic" -> SharedBackend_basic(self.inner, c, h, q.args.address)
            [] q.fn = "code_by_hash" -> SharedBackend_code_by_hash(self.inner, c, h, q.args.code_hash)
            [] q.fn = "storage" -> SharedBackend_storage(self.inner, c, h, q.args.address, q.args.index))

(* C7: on a Forked backend built with a pinned block, any two queries of
   the same kind with the same key got the same answer, whatever was
   queried and however far the remote chain moved in between. *)
C7_RepeatedQueriesAgree ==
    (pc = "built" /\ PinnedFork) =>
        \A a, b \in answers : a.query = b.query => a.value = b.value

C7_Witness ==
    /\ PinnedFork
    /\ Db.variant = "Forked"
    /\ nq = 3
    /\ head = MaxHead
    /\ Cardinality(answers) = 1
    /\ \E a \in answers : a.query.fn = "storage" /\ a.value.from = "remote"

(* C8: on a Forked backend built with pin p, block_hash(n) for n <= p
   returns the hash the node reports as of p (fetched or cached), and no
   request reaches the node for a block above p. *)
C8_NoRequestBeyondPin ==
    (pc = "built" /\ PinnedFork) =>
        LET p == builder.fork.val.pin_block.val IN
        /\ \A r \in requests :
             /\ r.at <= p
             /\ r.key.fn = "block_hash" => r.key.args.number <= p
        /\ \A a \in answers :
             (a.query.fn = "block_hash" /\ a.query.args.number <= p) =>
                 a.value = RemoteValue(a.query, p)

C8_Witness ==
    /\ PinnedFork
    /\ head = MaxHead
    /\ \E a \in answers : a.query.fn = "block_hash" /\ a.query.args.number > PinBlock
    /\ \E a \in answers : a.query.fn = "block_hash" /\ a.query.args.number = PinBlock
    /\ \E r \in requests : r.key.fn = "block_hash"

(* C9: every Backend query calls the inner database of the active variant,
   and only it, with the query's own arguments, and returns what that call
   returns: a Simple backend never touches the cache or the node, and a
   Forked backend never answers with an EmptyDB value. *)
C9_DispatchForwardsVerbatim ==
    /\ [][nq' # nq =>
            LET q == last'.val.query
                want == InnerAnswer(Db, cache, head, q)
            IN /\ last'.val.callee = want.callee
               /\ last'.val.key = q
               /\ last'.val.ret = want.value
               /\ cache' = want.cache
               /\ requests' = requests \cup want.fetched]_vars
    /\ []((pc = "built" /\ Db.variant = "Simple") =>
            (cache = EmptyCache /\ requests = {}))
    /\ []((pc = "built" /\ Db.variant = "Forked") =>
            \A a \in answers : a.value.from # "EmptyDB")

C9_Witness ==
    /\ last.some
    /\ Db.variant = "Forked"
    /\ last.val.query = Key("storage", [address |-> "0xA2", index |-> 1])
    /\ last.val.callee = "SharedBackend"
    /\ \E a \in answers : a.query.fn = "block_hash"
    /\ requests # {}

=============================================================================
